---- MODULE Spec2Model ----
(***************************************************************************)
(* The client-side RPC codec adapter of client/rpc_codec.go: rpcCodec with *)
(* its envelope buffer (readWriteCloser), the transport message it reuses  *)
(* for sending, and its three operations Write, Read and Close.            *)
(*                                                                         *)
(* The codec (codec.Codec) and the transport (transport.Client) are the    *)
(* adapter's collaborators.  Their outcomes (success or failure, the bytes *)
(* a codec writes, the envelope fields a header parse yields) are inputs   *)
(* of the actions.  Three codec behaviours are distinguished:              *)
(*   "rpc"  serialises the envelope's Id and Method in front of the body   *)
(*          and parses them back (json-rpc / proto-rpc style);             *)
(*   "raw"  passes the body bytes through and carries no metadata;         *)
(*   "odd"  writes the body bytes, and its header parse may leave any      *)
(*          combination of envelope fields set or empty, and may fail;     *)
(*          its body parse may fail and leave bytes unread.                *)
(* A codec receives the envelope by pointer; the codecs modelled here do   *)
(* not modify the envelope's Header map, as none of the registered codecs  *)
(* does.                                                                   *)
(***************************************************************************)
EXTENDS Integers, Sequences, FiniteSets, TLC

(* ---------------------------- bounds ----------------------------------- *)

\* Calls of Write, Read and Close made on the adapter in one behaviour.
MaxOps == 3

\* Messages a loopback transport holds for Recv.
MaxInbox == 2

(* ---------------------------- values ----------------------------------- *)

KId == "X-Micro-Id"

KService == "X-Micro-Service"

KMethod == "X-Micro-Method"

KError == "X-Micro-Error"

\* A header key that is not one of the adapter's canonical keys.
KOther == "Content-Type"

lastStreamResponseError == "EOS"

\* The error values an operation returns: nil, the two component-tagged
\* internal errors, the errShutdown sentinel, and a run-time panic.
ErrNil == "nil"

ErrCodec == "go.micro.client.codec"

ErrTransport == "go.micro.client.transport"

errShutdown == "connection is shut down"

ErrPanic == "panic"

\* The requests a caller passes to Write, each with its body.
WriteInputs ==
  { <<[Service |-> "S", ServiceMethod |-> "S.a", Seq |-> "1"], <<"a">>>>,
    <<[Service |-> "T", ServiceMethod |-> "T.b", Seq |-> "2"], <<"b", "b">>>>,
    <<[Service |-> "S", ServiceMethod |-> "T.b", Seq |-> "1"], <<>>>> }

\* The caller's Response before any Read.
EmptyResponse == [ServiceMethod |-> "", Seq |-> "", Error |-> ""]

CodecKinds == {"rpc", "raw", "odd"}

\* A Go map[string]string is a function on the set of its keys.
EmptyHeader == [k \in {} |-> ""]

Range(f) == {f[x] : x \in DOMAIN f}

\* m[k] of a Go map: the zero value "" for a missing key (and for a nil map,
\* which reads as an empty one).
Get(h, k) == IF k \in DOMAIN h THEN h[k] ELSE ""

(* ------------------------- bytes.Buffer -------------------------------- *)

\* The write-side buffer is a length wlen over a backing array whose bytes
\* written so far are wmem: Reset truncates the length and keeps the array,
\* and Bytes() returns a slice of that same array.  All bodies written here
\* fit the array's initial capacity, so no write reallocates it.
BufBytes(mem, len) == SubSeq(mem, 1, len)

\* Variant: the buffer is not truncated.
BufReset_Keep(len) == len

\* Buffer.Reset(): the length the buffer has afterwards.
BufReset(len) == 0

\* Buffer.Write(p) at length len: p overwrites the array from position len+1.
BufWrite(mem, len, p) ==
  [ mem |-> SubSeq(mem, 1, len) \o p \o SubSeq(mem, len + Len(p) + 1, Len(mem)),
    len |-> len + Len(p) ]

\* A transport message's Body is a byte slice: either bytes of its own, or
\* the first len bytes of the write buffer's backing array.
OwnBody(b) == [aliased |-> FALSE, len |-> Len(b), bytes |-> b]

AliasBody(n) == [aliased |-> TRUE, len |-> n, bytes |-> <<>>]

BodyBytes(body, mem) == IF body.aliased THEN SubSeq(mem, 1, body.len) ELSE body.bytes

(* --------------------------- the state --------------------------------- *)

VARIABLES
  codecKind,  \* which codec the adapter was constructed with
  loopback,   \* whether the transport echoes what it is sent
  wmem,       \* buf.wbuf: backing array
  wlen,       \* buf.wbuf: length
  rbuf,       \* buf.rbuf: unread bytes
  req,        \* *c.req, the reusable transport message
  inbox,      \* the messages the transport will deliver to Recv, in order
  resp,       \* the caller's Response
  out,        \* the caller's decoded body
  closed,     \* Close has been called (history; the adapter has no such field)
  last,       \* the last call: its operation, inputs, result and collaborator calls
  nops,       \* number of calls made
  blocked     \* a Read on another goroutine is suspended inside client.Recv

vars ==
  <<codecKind, loopback, wmem, wlen, rbuf, req, inbox, resp, out, closed, last, nops, blocked>>

Crashed == last.err = ErrPanic

\* The record of a call: the operation, the error it returned, the
\* collaborator calls it made in order and those that failed, the request and
\* body passed to Write, the message handed to Send, the message Recv
\* delivered, the envelope as the header parse left it, and the operation
\* called before this one.
Call(op, err, calls, failed, args, send, recv, me) ==
  [ op |-> op, err |-> err, calls |-> calls, failed |-> failed,
    args |-> args, send |-> send, recv |-> recv, me |-> me, prev |-> last.op ]

NoCall ==
  [ op |-> "none", err |-> ErrNil, calls |-> <<>>, failed |-> {},
    args |-> <<>>, send |-> <<>>, recv |-> <<>>, me |-> <<>>, prev |-> "none" ]

\* The transport messages a caller constructs the adapter with.
InitHeaders ==
  { (KOther :> "json"),
    (KOther :> "json") @@ (KId :> "9") @@ (KError :> "old") }

Init ==
  /\ codecKind \in CodecKinds
  /\ loopback \in BOOLEAN
  /\ wmem = <<>>
  /\ wlen = 0
  /\ rbuf = <<>>
  /\ \/ \E h \in InitHeaders : req = [Header |-> h, HeaderNil |-> FALSE, Body |-> OwnBody(<<>>)]
     \/ req = [Header |-> EmptyHeader, HeaderNil |-> TRUE, Body |-> OwnBody(<<>>)]
  /\ inbox = <<>>
  /\ resp = EmptyResponse
  /\ out = <<>>
  /\ closed = FALSE
  /\ last = NoCall
  /\ nops = 0
  /\ blocked = FALSE

(* ---------------------- the codec (collaborator) ------------------------ *)

\* What a codec's Write may do: succeed, fail before writing anything, or
\* fail after having written part of its output into the write buffer.
WriteOutcomes(kind) == IF kind = "raw" THEN {"ok", "fail"} ELSE {"ok", "fail", "partial"}

\* codec.Write(m, body): the bytes it writes to the connection and whether it
\* succeeds.  The "rpc" codec writes the envelope header, then the body; it
\* fails part-way when the header is out and the body cannot be marshalled.
CodecWrite(kind, m, body, w) ==
  LET full == IF kind = "rpc" THEN <<m.Id, m.Method>> \o body ELSE body
      part == IF kind = "rpc" THEN <<m.Id, m.Method>> ELSE body
  IN [ bytes |-> IF w = "ok" THEN full ELSE IF w = "partial" THEN part ELSE <<>>,
       ok |-> w = "ok" ]

\* What the "odd" codec's header parse may leave in the envelope: when it
\* succeeds, any of the three fields set or empty; when it fails, all of
\* them empty or all of them set.
OddHeaders ==
  { h \in [Id : {"", "7"}, Method : {"", "U.c"}, Error : {"", "boom"}, ok : BOOLEAN] :
      \/ h.ok
      \/ h.Id = "" /\ h.Method = "" /\ h.Error = ""
      \/ h.Id # "" /\ h.Method # "" /\ h.Error # "" }

\* The "rpc" and "raw" codecs' header parse takes no input but the bytes.
NoParse == [Id |-> "", Method |-> "", Error |-> "", ok |-> TRUE]

HeaderChoices(kind) == IF kind = "odd" THEN OddHeaders ELSE {NoParse}

\* codec.ReadHeader(&me, codec.Response) on the unread bytes rb: the envelope
\* fields it sets, whether it succeeds, and the bytes it leaves unread.
CodecReadHeader(kind, rb, h) ==
  IF kind = "rpc"
    THEN IF Len(rb) >= 2
           THEN [Id |-> rb[1], Method |-> rb[2], Error |-> "", ok |-> TRUE,
                 rest |-> SubSeq(rb, 3, Len(rb))]
           ELSE [Id |-> "", Method |-> "", Error |-> "", ok |-> FALSE, rest |-> <<>>]
  ELSE IF kind = "raw"
    THEN [Id |-> "", Method |-> "", Error |-> "", ok |-> TRUE, rest |-> rb]
  ELSE [Id |-> h.Id, Method |-> h.Method, Error |-> h.Error, ok |-> h.ok, rest |-> rb]

\* What a body parse may do: the "odd" codec's may fail part-way and leave
\* bytes unread.
BodyChoices(kind) == IF kind = "odd" THEN {"ok", "fail"} ELSE {"ok"}

\* codec.ReadBody(b) on the unread bytes rb, with the caller's value old.
CodecReadBody(kind, rb, old, b) ==
  IF b = "ok" THEN [out |-> rb, ok |-> TRUE, rest |-> <<>>]
  ELSE [out |-> old, ok |-> FALSE, rest |-> rb]

(* ------------------------------ Write ---------------------------------- *)

\* fmt.Sprintf("%v", s) of a string s is s.
SprintfV(s) == s

\* Variant: the request's Service taken for its Seq.
Envelope_ServiceAsId(r) ==
  [ Id |-> r.Service,
    Target |-> r.Service,
    Method |-> r.ServiceMethod,
    Type |-> "Request",
    Header |-> (KId :> SprintfV(r.Service)) @@ (KService :> r.Service) @@ (KMethod :> r.ServiceMethod) ]

\* The envelope Write builds from the request.
Envelope(r) ==
  [ Id |-> r.Seq,
    Target |-> r.Service,
    Method |-> r.ServiceMethod,
    Type |-> "Request",
    Header |-> (KId :> SprintfV(r.Seq)) @@ (KService :> r.Service) @@ (KMethod :> r.ServiceMethod) ]

\* Variant: a key the transport message already has is not overwritten.
MergeHeader_KeepExisting(h, eh) ==
  [k \in DOMAIN h \cup DOMAIN eh |-> IF k \in DOMAIN h THEN h[k] ELSE eh[k]]

\* for k, v := range m.Header { c.req.Header[k] = v }
MergeHeader(h, eh) == [k \in DOMAIN h \cup DOMAIN eh |-> IF k \in DOMAIN eh THEN eh[k] ELSE h[k]]

\* Variant: the codec's error is dropped.
WriteError_CodecIgnored(codecOk, sendOk) == IF ~sendOk THEN ErrTransport ELSE ErrNil

\* The error Write returns once the codec and the transport have answered.
WriteError(codecOk, sendOk) ==
  IF ~codecOk THEN ErrCodec ELSE IF ~sendOk THEN ErrTransport ELSE ErrNil

\* Variant: a failed Send is tried once more.
SendCalls_RetryOnError(sendOk) ==
  IF sendOk THEN <<"client.Send">> ELSE <<"client.Send", "client.Send">>

\* The calls of c.client.Send(c.req) one Write makes: one, whatever it returns.
SendCalls(sendOk) == <<"client.Send">>

\* Variant: Write clears the Seq of the request it was given.
RequestAfterWrite_ClearsSeq(r) == [r EXCEPT !.Seq = ""]

\* The caller's request after Write: Write reads req.Seq, req.Service and
\* req.ServiceMethod and assigns none of them.
RequestAfterWrite(r) == r

\* The message the transport takes from Send: the header map and the bytes
\* the Body slice shows at that moment.
Wire(msg, mem) == [Header |-> msg.Header, Body |-> BodyBytes(msg.Body, mem)]

Write(r, body, w, sendOk) ==
  /\ ~Crashed
  /\ ~blocked
  /\ nops < MaxOps
  /\ LET m == Envelope(r)
         cw == CodecWrite(codecKind, m, body, w)
         buf == BufWrite(wmem, BufReset(wlen), cw.bytes)   \* wbuf.Reset(), then the codec's writes
         merged == [req EXCEPT !.Body = AliasBody(buf.len),
                               !.Header = MergeHeader(req.Header, m.Header)]
     IN /\ wmem' = buf.mem
        /\ wlen' = buf.len
        /\ IF ~cw.ok
             THEN /\ sendOk
                  /\ req' = req
                  /\ inbox' = inbox
                  /\ last' = Call("Write", WriteError(FALSE, sendOk), <<"codec.Write">>,
                                  {"codec.Write"}, <<r, body, RequestAfterWrite(r)>>,
                                  <<>>, <<>>, <<>>)
           ELSE IF req.HeaderNil
             THEN \* assignment to an entry in a nil map
                  /\ sendOk
                  /\ req' = [req EXCEPT !.Body = AliasBody(buf.len)]
                  /\ inbox' = inbox
                  /\ last' = Call("Write", ErrPanic, <<"codec.Write">>, {},
                                  <<r, body, RequestAfterWrite(r)>>, <<>>, <<>>, <<>>)
           ELSE /\ req' = merged
                /\ IF sendOk /\ loopback
                     THEN /\ Len(inbox) < MaxInbox
                          /\ inbox' = Append(inbox, Wire(merged, buf.mem))
                     ELSE inbox' = inbox
                /\ last' = Call("Write", WriteError(TRUE, sendOk),
                                <<"codec.Write">> \o SendCalls(sendOk),
                                IF sendOk THEN {} ELSE {"client.Send"},
                                <<r, body, RequestAfterWrite(r)>>,
                                <<Wire(merged, buf.mem)>>, <<>>, <<>>)
  /\ nops' = nops + 1
  /\ UNCHANGED <<codecKind, loopback, rbuf, resp, out, closed, blocked>>

(* ------------------------------- Read ---------------------------------- *)

\* Variant: the three fallbacks collapsed into one test.
RespError_OnlyIfAllEmpty(me, hdr) ==
  IF me.Error = "" /\ me.Method = "" /\ me.Id = "" THEN Get(hdr, KError) ELSE me.Error

\* r.Error = me.Error; if len(me.Error) == 0 { r.Error = me.Header["X-Micro-Error"] }
RespError(me, hdr) == IF me.Error = "" THEN Get(hdr, KError) ELSE me.Error

\* Variant: the method is taken from the envelope alone.
RespMethod_NoFallback(me, hdr) == me.Method

\* r.ServiceMethod = me.Method; if len(me.Method) == 0 { ... me.Header["X-Micro-Method"] }
RespMethod(me, hdr) == IF me.Method = "" THEN Get(hdr, KMethod) ELSE me.Method

\* Variant: the transport header's id wins over the envelope's.
RespSeq_HeaderFirst(me, hdr) == IF KId \in DOMAIN hdr THEN hdr[KId] ELSE me.Id

\* r.Seq = me.Id; if len(me.Id) == 0 { r.Seq = me.Header["X-Micro-Id"] }
RespSeq(me, hdr) == IF me.Id = "" THEN Get(hdr, KId) ELSE me.Id

\* The Response Read leaves after the header parse and the three fallbacks.
Populate(me, hdr) ==
  [ServiceMethod |-> RespMethod(me, hdr), Seq |-> RespSeq(me, hdr), Error |-> RespError(me, hdr)]

\* Variant: a failed header parse returns before the Response is touched.
RespAfterHeader_FailFast(old, me, hdr, headerOk) == IF headerOk THEN Populate(me, hdr) ELSE old

\* Variant: a field is assigned only when there is a value for it.
RespAfterHeader_KeepOldIfEmpty(old, me, hdr, headerOk) ==
  [ ServiceMethod |-> IF RespMethod(me, hdr) = "" THEN old.ServiceMethod ELSE RespMethod(me, hdr),
    Seq |-> IF RespSeq(me, hdr) = "" THEN old.Seq ELSE RespSeq(me, hdr),
    Error |-> IF RespError(me, hdr) = "" THEN old.Error ELSE RespError(me, hdr) ]

\* The Response after the header parse: the three fields are assigned before
\* the parse's error is looked at.
RespAfterHeader(old, me, hdr, headerOk) == Populate(me, hdr)

\* rbuf.Reset(); rbuf.Write(m.Body): the unread bytes the codec finds.
LoadRbuf(old, body) == SubSeq(old, 1, BufReset(Len(old))) \o body

\* The error Read returns once Recv has delivered a message.
ReadError(headerOk, bodyOk) == IF ~headerOk \/ ~bodyOk THEN ErrCodec ELSE ErrNil

\* The messages the remote end of a transport may deliver: with or without
\* the canonical keys in the header, and a payload in the codec's encoding
\* (for the "rpc" codec, a well-formed one and one too short to parse).
PeerHeaders ==
  { EmptyHeader,
    (KError :> lastStreamResponseError),
    (KError :> lastStreamResponseError) @@ (KId :> "5") @@ (KMethod :> "P.m") }

PeerBodies(kind) == IF kind = "rpc" THEN {<<"1", "S.a", "b">>, <<"a">>} ELSE {<<"a">>}

PeerMsgs(kind) == [Header : PeerHeaders, Body : PeerBodies(kind)]

\* Stands for the message of a Recv that delivered none.
NoMsg == [Header |-> EmptyHeader, Body |-> <<>>]

\* What a successful client.Recv(&m) may put in m: the head of the queue of a
\* loopback transport (Recv blocks while it is empty), or a peer's message.
Receivable == IF loopback THEN {inbox[i] : i \in 1..Len(inbox) \cap {1}} ELSE PeerMsgs(codecKind)

\* Variant: the read buffer is reset before Recv is called, as Write resets
\* its buffer first.
RbufAfterFailedRecv_Reset(rb) == <<>>

\* The read buffer after a Read whose Recv failed: Read returns at the error
\* and the buffer is not reached.
RbufAfterFailedRecv(rb) == rb

\* Variant: a message whose header does not parse is dropped and the next
\* one is received.
RecvCount_RetryOnBadHeader(headerOk) == IF headerOk THEN 1 ELSE 2

\* The calls of c.client.Recv(&m) one Read makes: one, whatever the header
\* and body parse do with the message.
RecvCount(headerOk) == 1

RecvCalls(n) == [i \in 1..n |-> "client.Recv"]

\* Variant: a remote error in the Response is returned as Read's error.
ReadReturn_RemoteErrorFails(r, headerOk, bodyOk) ==
  IF headerOk /\ r.Error # "" THEN r.Error ELSE ReadError(headerOk, bodyOk)

\* What Read returns after Recv: the header parse's error, else the body
\* parse's error, else nil; the Response's Error field is not looked at.
ReadReturn(r, headerOk, bodyOk) == ReadError(headerOk, bodyOk)

\* The body of Read from the moment client.Recv returns, with failure
\* (recvOk false) or with message m.
ReadEffect(recvOk, m, h, b) ==
  /\ IF ~recvOk
       THEN /\ last' = Call("Read", ErrTransport, <<"client.Recv">>, {"client.Recv"},
                            <<>>, <<>>, <<>>, <<>>)
            /\ rbuf' = RbufAfterFailedRecv(rbuf)
            /\ UNCHANGED <<inbox, resp, out>>
     ELSE /\ m \in Receivable
          /\ LET hd == CodecReadHeader(codecKind, LoadRbuf(rbuf, m.Body), h)
                 me == [Id |-> hd.Id, Method |-> hd.Method, Error |-> hd.Error]
                 bd == CodecReadBody(codecKind, hd.rest, out, b)
                 r == RespAfterHeader(resp, me, m.Header, hd.ok)
                 n == RecvCount(hd.ok)
             IN /\ inbox' = IF loopback THEN SubSeq(inbox, n + 1, Len(inbox)) ELSE inbox
                /\ resp' = r
                /\ IF ~hd.ok
                     THEN /\ rbuf' = hd.rest
                          /\ out' = out
                          /\ last' = Call("Read", ReadReturn(r, FALSE, TRUE),
                                          RecvCalls(n) \o <<"codec.ReadHeader">>,
                                          {"codec.ReadHeader"}, <<>>, <<>>, <<m>>, <<me>>)
                   ELSE /\ rbuf' = bd.rest
                        /\ out' = bd.out
                        /\ last' = Call("Read", ReadReturn(r, TRUE, bd.ok),
                                        RecvCalls(n) \o <<"codec.ReadHeader", "codec.ReadBody">>,
                                        IF bd.ok THEN {} ELSE {"codec.ReadBody"},
                                        <<>>, <<>>, <<m>>, <<me>>)
  /\ UNCHANGED <<codecKind, loopback, wmem, wlen, req, closed>>

\* A Read whose Recv returns without suspending the caller.
Read(recvOk, m, h, b) ==
  /\ ~Crashed
  /\ ~blocked
  /\ nops < MaxOps
  /\ ReadEffect(recvOk, m, h, b)
  /\ nops' = nops + 1
  /\ blocked' = FALSE

\* A Read is called and suspends inside client.Recv: the transport has no
\* message yet (a loopback's queue is empty; a peer has sent nothing).
ReadBlock ==
  /\ ~Crashed
  /\ ~blocked
  /\ nops < MaxOps
  /\ loopback => inbox = <<>>
  /\ blocked' = TRUE
  /\ UNCHANGED <<codecKind, loopback, wmem, wlen, rbuf, req, inbox, resp, out, closed, last, nops>>

\* The transport makes the suspended Recv return, with a message or with a
\* failure, and the Read runs to its end.
ReadUnblock(recvOk, m, h, b) ==
  /\ blocked
  /\ ReadEffect(recvOk, m, h, b)
  /\ nops' = nops + 1
  /\ blocked' = FALSE

(* ------------------------------ Close ---------------------------------- *)

\* Variant: only the read side is reset.
RwcClose_ReadSideOnly(rb, wl) == [rbuf |-> <<>>, wlen |-> wl]

\* readWriteCloser.Close(): both buffers are reset; it returns nil.
RwcClose(rb, wl) == [rbuf |-> SubSeq(rb, 1, BufReset(Len(rb))), wlen |-> BufReset(wl)]

\* Variant: Close returns at the codec's error, before the transport.
CloseCalls_StopAtCodecError(codecOk) ==
  IF codecOk THEN <<"buf.Close", "codec.Close", "client.Close">>
  ELSE <<"buf.Close", "codec.Close">>

\* Variant: Close waits for a Read in flight (a lock shared with Read).
CloseReady_WaitsForRead(blk) == ~blk

\* Whether Close may run while a Read is suspended in Recv: Close takes no
\* lock and looks at no state of the Read.
CloseReady(blk) == TRUE

\* The releases Close performs, in order: the result of c.codec.Close() is
\* not looked at, so the transport is closed whatever the codec answered.
CloseCalls(codecOk) == <<"buf.Close", "codec.Close", "client.Close">>

\* if err := c.client.Close(); err != nil { return InternalServerError(transport) }; return nil
CloseError(codecOk, clientOk) == IF ~clientOk THEN ErrTransport ELSE ErrNil

Close(codecOk, clientOk) ==
  /\ ~Crashed
  /\ CloseReady(blocked)
  /\ nops < MaxOps
  /\ rbuf' = RwcClose(rbuf, wlen).rbuf
  /\ wlen' = RwcClose(rbuf, wlen).wlen
  /\ closed' = TRUE
  /\ last' = Call("Close", CloseError(codecOk, clientOk), CloseCalls(codecOk),
                  (IF codecOk THEN {} ELSE {"codec.Close"})
                    \cup (IF clientOk /\ "client.Close" \in Range(CloseCalls(codecOk))
                            THEN {} ELSE {"client.Close"}),
                  <<>>, <<>>, <<>>, <<>>)
  /\ nops' = nops + 1
  /\ UNCHANGED <<codecKind, loopback, wmem, req, inbox, resp, out, blocked>>

(* --------------------------- specification ----------------------------- *)

Next ==
  \/ \E in \in WriteInputs, w \in WriteOutcomes(codecKind), sendOk \in BOOLEAN :
       Write(in[1], in[2], w, sendOk)
  \/ \E m \in Receivable, h \in HeaderChoices(codecKind), b \in BodyChoices(codecKind) :
       Read(TRUE, m, h, b)
  \/ Read(FALSE, NoMsg, NoParse, "ok")
  \/ \E codecOk \in BOOLEAN, clientOk \in BOOLEAN : Close(codecOk, clientOk)

\* One caller at a time: every call returns before the next is made.
Spec == Init /\ [][Next]_vars

\* A second goroutine: a Read may suspend in Recv, and while it does the
\* other goroutine may call Close.
NextConc ==
  \/ Next
  \/ ReadBlock
  \/ \E m \in Receivable, h \in HeaderChoices(codecKind), b \in BodyChoices(codecKind) :
       ReadUnblock(TRUE, m, h, b)
  \/ ReadUnblock(FALSE, NoMsg, NoParse, "ok")

SpecConc == Init /\ [][NextConc]_vars

(* ------------------------------ claims --------------------------------- *)

\* A step that is a call of operation op.
IsCall(op) == nops' = nops + 1 /\ last'.op = op

\* C1: after Close, every Write and every Read fails with the shutdown
\* condition errShutdown (as the claim states it).
C1_ShutdownAfterClose ==
  (closed /\ last.op \in {"Write", "Read"}) => last.err = errShutdown

\* C2: round trip.  With a codec whose parse inverts its Write ("rpc", and
\* "raw" for the body) over a loopback transport, a successful Write followed
\* at once by a Read that receives the message just sent returns no error and
\* leaves resp.Seq and resp.ServiceMethod equal to the request's and the
\* decoded body equal to the body written.
C2_RoundTrip ==
  [][ ( /\ loopback
        /\ codecKind \in {"rpc", "raw"}
        /\ last.op = "Write" /\ last.err = ErrNil
        /\ Len(inbox) = 1
        /\ IsCall("Read") /\ last'.recv # <<>> )
      => ( /\ last'.err = ErrNil
           /\ resp'.Seq = last.args[1].Seq
           /\ resp'.ServiceMethod = last.args[1].ServiceMethod
           /\ out' = last.args[2] ) ]_vars

\* C2 witness: a Read over the loopback has returned the second request's
\* Seq, ServiceMethod and body through the "rpc" codec.
C2_Witness ==
  /\ loopback /\ codecKind = "rpc"
  /\ last.op = "Read" /\ last.err = ErrNil
  /\ resp.Seq = "2" /\ resp.ServiceMethod = "T.b" /\ out = <<"b", "b">>

\* C3: fallback law.  After a Read that received a message, for each of the
\* three fields separately: if the header parse left the envelope field empty
\* and the message's header carries the canonical key, the Response field is
\* the header's value, whatever the parse did with the other two fields and
\* whether or not it failed.
C3_Fallback ==
  (last.op = "Read" /\ last.recv # <<>>) =>
    LET hdr == last.recv[1].Header
        me == last.me[1]
    IN /\ (me.Error = "" /\ KError \in DOMAIN hdr) => resp.Error = hdr[KError]
       /\ (me.Method = "" /\ KMethod \in DOMAIN hdr) => resp.ServiceMethod = hdr[KMethod]
       /\ (me.Id = "" /\ KId \in DOMAIN hdr) => resp.Seq = hdr[KId]

\* C3 witness: the header carries X-Micro-Error = "EOS", the parse left Error
\* empty and the other two fields set, and resp.Error is "EOS".
C3_Witness ==
  /\ last.op = "Read" /\ last.recv # <<>>
  /\ last.me[1].Error = "" /\ last.me[1].Id # "" /\ last.me[1].Method # ""
  /\ Get(last.recv[1].Header, KError) = lastStreamResponseError
  /\ Get(last.recv[1].Header, KId) = "5"
  /\ resp.Error = lastStreamResponseError

\* C4: precedence.  After a Read that received a message, a field the header
\* parse left non-empty is the Response's value for it, also when the
\* message's header carries another value under the canonical key.
C4_Precedence ==
  (last.op = "Read" /\ last.recv # <<>>) =>
    LET me == last.me[1]
    IN /\ me.Error # "" => resp.Error = me.Error
       /\ me.Method # "" => resp.ServiceMethod = me.Method
       /\ me.Id # "" => resp.Seq = me.Id

\* C4 witness: envelope and header disagree on all three fields, and the
\* Response holds the envelope's values.
C4_Witness ==
  /\ last.op = "Read" /\ last.recv # <<>>
  /\ last.me[1] = [Id |-> "7", Method |-> "U.c", Error |-> "boom"]
  /\ Get(last.recv[1].Header, KError) = lastStreamResponseError
  /\ Get(last.recv[1].Header, KId) = "5"
  /\ Get(last.recv[1].Header, KMethod) = "P.m"
  /\ resp = [ServiceMethod |-> "U.c", Seq |-> "7", Error |-> "boom"]

\* C5: when the header parse fails, Read returns the codec-tagged error with
\* the three Response fields assigned (envelope value, or the header's value
\* where the envelope's is empty), and the body parse is not called: the
\* caller's body value is as before.
C5_HeaderFailure ==
  [][ (IsCall("Read") /\ "codec.ReadHeader" \in last'.failed) =>
        LET hdr == last'.recv[1].Header
            me == last'.me[1]
        IN /\ last'.err = ErrCodec
           /\ resp'.Error = (IF me.Error = "" THEN Get(hdr, KError) ELSE me.Error)
           /\ resp'.ServiceMethod = (IF me.Method = "" THEN Get(hdr, KMethod) ELSE me.Method)
           /\ resp'.Seq = (IF me.Id = "" THEN Get(hdr, KId) ELSE me.Id)
           /\ "codec.ReadBody" \notin Range(last'.calls)
           /\ out' = out ]_vars

\* C5 witness: a failed header parse left the envelope empty, and the
\* Response holds the header's three values next to the error.
C5_Witness ==
  /\ last.op = "Read" /\ "codec.ReadHeader" \in last.failed
  /\ last.err = ErrCodec
  /\ last.me[1].Error = ""
  /\ resp = [ServiceMethod |-> "P.m", Seq |-> "5", Error |-> lastStreamResponseError]

C7_CloseSurfacesFailure ==
  (last.op = "Close" /\ last.failed # {}) => last.err # ErrNil

\* C8: every Close resets both buffers, closes the codec and closes the
\* transport, in this order, whether or not the codec's Close failed; both
\* buffers are empty afterwards; and when the transport's Close fails, Close
\* returns the transport-tagged error.
C8_CloseReleasesAll ==
  last.op = "Close" =>
    /\ last.calls = <<"buf.Close", "codec.Close", "client.Close">>
    /\ rbuf = <<>>
    /\ BufBytes(wmem, wlen) = <<>>
    /\ "client.Close" \in last.failed => last.err = ErrTransport

\* C8 witness: a Close in which both the codec's and the transport's Close
\* failed, after a Write had filled the write buffer.
C8_Witness ==
  /\ last.op = "Close"
  /\ last.failed = {"codec.Close", "client.Close"}
  /\ last.err = ErrTransport
  /\ Len(wmem) > 0

\* C9: a Close that follows a Close does not crash, again resets the
\* buffers, closes the codec and closes the transport, and leaves the
\* buffers, the codec, the transport and the transport message as the first
\* Close left them.
C9_CloseIdempotent ==
  [][ (last.op = "Close" /\ IsCall("Close")) =>
        /\ ~Crashed'
        /\ last'.calls = <<"buf.Close", "codec.Close", "client.Close">>
        /\ rbuf' = <<>> /\ rbuf = <<>>
        /\ BufBytes(wmem', wlen') = <<>> /\ BufBytes(wmem, wlen) = <<>>
        /\ codecKind' = codecKind
        /\ loopback' = loopback
        /\ req' = req
        /\ BodyBytes(req'.Body, wmem') = BodyBytes(req.Body, wmem) ]_vars

\* C9 witness: a Close right after a Close, on an adapter whose write buffer
\* had been filled by a Write.
C9_Witness ==
  /\ last.op = "Close" /\ last.prev = "Close" /\ closed
  /\ Len(wmem) > 0 /\ wlen = 0
  /\ req.Body.aliased

\* C10: whenever a Write hands the transport message to Send, the message's
\* header carries X-Micro-Id, X-Micro-Service and X-Micro-Method with the
\* values of this Write's request, and every other key the header had before
\* the call has the value it had.
C10_CanonicalKeys ==
  [][ (IsCall("Write") /\ last'.send # <<>>) =>
        LET hdr == last'.send[1].Header
            r == last'.args[1]
        IN /\ {KId, KService, KMethod} \subseteq DOMAIN hdr
           /\ hdr[KId] = r.Seq
           /\ hdr[KService] = r.Service
           /\ hdr[KMethod] = r.ServiceMethod
           /\ \A k \in DOMAIN req.Header \ {KId, KService, KMethod} :
                k \in DOMAIN hdr /\ hdr[k] = req.Header[k]
           /\ req'.Header = hdr ]_vars

\* C10 witness: the loopback holds two sent messages, the first with the
\* first request's keys and the second with the second request's, both with
\* the header's other keys as constructed.
C10_Witness ==
  /\ last.op = "Write" /\ last.send # <<>>
  /\ Len(inbox) = 2
  /\ inbox[1].Header[KId] = "1" /\ inbox[1].Header[KMethod] = "S.a"
  /\ inbox[2].Header[KId] = "2" /\ inbox[2].Header[KMethod] = "T.b"
  /\ inbox[2].Header[KService] = "T"
  /\ Get(inbox[2].Header, KOther) = "json" /\ Get(inbox[2].Header, KError) = "old"
  /\ last.send[1] = inbox[2]

\* The number of times call c occurs in the sequence of calls cs.
Count(cs, c) == Cardinality({i \in DOMAIN cs : cs[i] = c})

\* C11: end to end with the passthrough codec.  Over a loopback that echoes
\* the sent message with its header, from a transport message without an
\* X-Micro-Error key, a successful Write followed at once by the Read of the
\* message just sent gives a header parse with Id, Method and Error empty
\* and still resp.Seq and resp.ServiceMethod equal to the request's,
\* resp.Error empty and the decoded body equal to the bytes written.
C11_RawEndToEnd ==
  [][ ( /\ loopback
        /\ codecKind = "raw"
        /\ last.op = "Write" /\ last.err = ErrNil
        /\ Len(inbox) = 1
        /\ KError \notin DOMAIN req.Header
        /\ IsCall("Read") /\ last'.recv # <<>> )
      => ( /\ last'.err = ErrNil
           /\ last'.me[1] = [Id |-> "", Method |-> "", Error |-> ""]
           /\ resp' = [ ServiceMethod |-> last.args[1].ServiceMethod,
                        Seq |-> last.args[1].Seq,
                        Error |-> "" ]
           /\ out' = last.args[2] ) ]_vars

\* C11 witness: the passthrough codec's Read over the loopback has returned
\* the second request's metadata, which its header parse left empty.
C11_Witness ==
  /\ loopback /\ codecKind = "raw"
  /\ last.op = "Read" /\ last.err = ErrNil /\ last.prev = "Write"
  /\ last.me[1] = [Id |-> "", Method |-> "", Error |-> ""]
  /\ resp = [ServiceMethod |-> "T.b", Seq |-> "2", Error |-> ""]
  /\ out = <<"b", "b">>

\* C12: when Recv fails, Read returns the transport-tagged error at once:
\* Recv is its only call, the read buffer is as before, no message is taken,
\* and the caller's Response and body value are as before.
C12_RecvFailure ==
  [][ (IsCall("Read") /\ "client.Recv" \in last'.failed) =>
        /\ last'.err = ErrTransport
        /\ last'.calls = <<"client.Recv">>
        /\ rbuf' = rbuf
        /\ inbox' = inbox
        /\ resp' = resp
        /\ out' = out ]_vars

\* C12 witness: Recv failed in a Read that followed a Read, with bytes still
\* unread in the read buffer and a Response populated by the earlier Read.
C12_Witness ==
  /\ last.op = "Read" /\ last.prev = "Read"
  /\ last.err = ErrTransport /\ "client.Recv" \in last.failed
  /\ rbuf # <<>>
  /\ resp.Seq # "" /\ resp.Error # ""

\* C13: a Write calls Send at most once: when Send fails, Write returns the
\* transport-tagged error after that one call; when Write returns nil, the
\* codec's Write and exactly one Send have been called and neither failed.
C13_SendOnce ==
  last.op = "Write" =>
    /\ Count(last.calls, "client.Send") <= 1
    /\ "client.Send" \in last.failed =>
         last.err = ErrTransport /\ Count(last.calls, "client.Send") = 1
    /\ last.err = ErrNil =>
         last.calls = <<"codec.Write", "client.Send">> /\ last.failed = {}
    /\ (last.failed = {} /\ last.send # <<>>) => last.err = ErrNil

\* C13 witness: a Write whose Send failed, on a loopback that received
\* nothing from it.
C13_Witness ==
  /\ last.op = "Write" /\ "client.Send" \in last.failed
  /\ last.err = ErrTransport
  /\ loopback /\ inbox = <<>>
  /\ last.send # <<>>

\* C14: a remote error is not a failure of Read.  Read returns nil exactly
\* when Recv, the header parse and the body parse all succeeded, whatever
\* resp.Error is then; in that case the body parse has been called.
C14_RemoteErrorIsNotFailure ==
  last.op = "Read" =>
    /\ (last.failed = {}) <=> (last.err = ErrNil)
    /\ last.failed = {} => "codec.ReadBody" \in Range(last.calls)
    /\ last.err \in {ErrNil, ErrCodec, ErrTransport}

\* C14 witness: a Read that returned nil with the stream-end marker, taken
\* from the transport header, in resp.Error and a decoded body.
C14_Witness ==
  /\ last.op = "Read" /\ last.err = ErrNil /\ last.failed = {}
  /\ last.me[1].Error = ""
  /\ resp.Error = lastStreamResponseError
  /\ out # <<>>

\* C15: the buffers are reset at each cycle.  The Body a Write hands to Send
\* is what the codec serialised in that Write and nothing else, and the body
\* a Read decodes is made of the payload of the message received in that
\* Read and of nothing else.
C15_BufferResetPerCycle ==
  [][ /\ (IsCall("Write") /\ last'.send # <<>>) =>
           last'.send[1].Body =
             (IF codecKind = "rpc"
                THEN <<last'.args[1].Seq, last'.args[1].ServiceMethod>> \o last'.args[2]
                ELSE last'.args[2])
      /\ (IsCall("Read") /\ last'.failed = {}) =>
           out' = (IF codecKind = "rpc"
                     THEN SubSeq(last'.recv[1].Body, 3, Len(last'.recv[1].Body))
                     ELSE last'.recv[1].Body) ]_vars

\* C15 witness: a Write has sent a message shorter than what an earlier
\* Write had left in the write buffer's array.
C15_Witness ==
  /\ last.op = "Write" /\ last.prev = "Write" /\ last.send # <<>>
  /\ wlen > 0 /\ Len(wmem) > wlen
  /\ Len(last.send[1].Body) = wlen

\* C16: every Read calls Recv exactly once, whatever the header and body
\* parse do; over a loopback (a FIFO) a Read whose Recv succeeds takes the
\* message at the head of the queue and no other, populates the Response
\* from it, and leaves the rest of the queue in order; a Read whose Recv
\* fails takes none.
C16_OneMessagePerRead ==
  [][ IsCall("Read") =>
        /\ Count(last'.calls, "client.Recv") = 1
        /\ (loopback /\ last'.recv # <<>>) =>
             /\ inbox # <<>>
             /\ last'.recv[1] = Head(inbox)
             /\ inbox' = Tail(inbox)
             /\ codecKind = "raw" => resp'.Seq = Get(Head(inbox).Header, KId)
             /\ codecKind = "rpc" => resp'.Seq = Head(inbox).Body[1]
        /\ last'.recv = <<>> => inbox' = inbox ]_vars

\* C16 witness: two messages were sent over the loopback and one Read has
\* populated the Response from the first; the second is still queued.
C16_Witness ==
  /\ loopback /\ last.op = "Read" /\ last.recv # <<>>
  /\ resp.Seq = "1" /\ Get(last.recv[1].Header, KId) = "1"
  /\ Len(inbox) = 1 /\ Get(inbox[1].Header, KId) = "2"

\* C17: while a Read is suspended in Recv, Close can be called and runs to
\* its end (buffers reset, codec closed, transport closed) without the Read
\* returning; the Read stays suspended through Close and returns only by
\* Recv returning, with a message or with a failure.
C17_CloseDoesNotWaitForRead ==
  [][ /\ (blocked /\ ~Crashed /\ nops < MaxOps) =>
           ENABLED (\E codecOk \in BOOLEAN, clientOk \in BOOLEAN : Close(codecOk, clientOk))
      /\ (blocked /\ IsCall("Close")) =>
           /\ blocked'
           /\ last'.calls = <<"buf.Close", "codec.Close", "client.Close">>
           /\ rbuf' = <<>> /\ BufBytes(wmem', wlen') = <<>>
      /\ (blocked /\ ~blocked') =>
           /\ last'.op = "Read"
           /\ Count(last'.calls, "client.Recv") = 1
           /\ last'.recv # <<>> \/ "client.Recv" \in last'.failed ]_vars

\* C17 witness: Close has returned while the Read is still suspended.
C17_Witness ==
  /\ blocked /\ closed /\ last.op = "Close"
  /\ last.calls = <<"buf.Close", "codec.Close", "client.Close">>

\* C18: Write leaves the request it is given as it was, on every path, and
\* no call changes which codec, which transport or which transport message
\* (nil Header map or not) the adapter is bound to.
C18_RequestAndBindingsKept ==
  [][ /\ IsCall("Write") => last'.args[3] = last'.args[1]
      /\ codecKind' = codecKind
      /\ loopback' = loopback
      /\ req'.HeaderNil = req.HeaderNil ]_vars

\* C18 witness: a Write that failed in Send after a Close, its request still
\* the one passed.
C18_Witness ==
  /\ last.op = "Write" /\ closed /\ last.err = ErrTransport
  /\ last.args[3] = [Service |-> "T", ServiceMethod |-> "T.b", Seq |-> "2"]

\* C19: no stale Response data.  After a Read whose Recv succeeded, each
\* Response field is the envelope's value, or the transport header's value
\* when the envelope's is empty, or "" when that key is absent too; it is
\* never what the Response held before.
C19_NoStaleResponse ==
  (last.op = "Read" /\ last.recv # <<>>) =>
    LET hdr == last.recv[1].Header
        me == last.me[1]
        Field(v, k) == IF v # "" THEN v ELSE IF k \in DOMAIN hdr THEN hdr[k] ELSE ""
    IN resp = [ ServiceMethod |-> Field(me.Method, KMethod),
                Seq |-> Field(me.Id, KId),
                Error |-> Field(me.Error, KError) ]

\* C19 witness: a first Read decoded a well-formed "rpc" message (its body
\* is still the caller's), and the second, of a message too short to parse
\* and without canonical keys, has left the reused Response empty.
C19_Witness ==
  /\ codecKind = "rpc" /\ ~loopback /\ nops = 2
  /\ last.op = "Read" /\ last.prev = "Read"
  /\ "codec.ReadHeader" \in last.failed
  /\ out = <<"b">>
  /\ resp = EmptyResponse

\* C20: every Write returns, with nil or with an error, whatever transport
\* message the adapter was constructed with (as the claim states it).
C20_WriteReturns ==
  last.op = "Write" => last.err \in {ErrNil, ErrCodec, ErrTransport}

====
